---- MODULE Spec2Model ----
(***************************************************************************)
(* Model of the library menu program (src/main.cpp).                       *)
(*                                                                         *)
(* Standard input is a character stream: buf holds the characters the user *)
(* has entered and the program has not yet read.  The terminal delivers    *)
(* whole lines, so the user adds a line (with its terminator) only when    *)
(* the program is blocked in a read.  A string is a tuple of one-character *)
(* strings.  Each action is one run of the program from one blocking read  *)
(* to the next; out is what that run wrote to standard output.             *)
(***************************************************************************)
EXTENDS Integers, Sequences, FiniteSets, TLC

VARIABLES
    pc,         \* where the program is blocked: "main", "choice", "title",
                \* "author", "year", "search", "pause", "done", "crashed"
    books,      \* Library::books
    actions,    \* Library::actions
    running,    \* the flag of Library::run
    choice,     \* the local int choice of Library::run
    buf,        \* unread characters of standard input
    eof,        \* standard input has ended
    title,      \* Book::getBookFromInput: the accepted title
    author,     \* Book::getBookFromInput: the accepted author
    query,      \* Search book: the accepted title
    foundBook,  \* Search book: the result of findBook (0 is nullptr,
                \* i > 0 points to books[i])
    passed,     \* the vector<Book> handed to the last invoked callback
    invoked,    \* indexes (0-based, as in the code) of the registry
                \* callbacks invoked by the last step
    out,        \* what the last step wrote to standard output
    typed       \* the last line the user entered, and the read it was
                \* entered at

vars == <<pc, books, actions, running, choice, buf, eof, title, author,
          query, foundBook, passed, invoked, out, typed>>

----------------------------------------------------------------------------
(* Bounds *)

\* Adds that may complete
MaxBooks == 2
\* longest line entered at the year prompt when every line is tried
MaxYearLen == 5
\* longest line entered at a text prompt when every line is tried
MaxTextLen == 3

----------------------------------------------------------------------------
(* Characters and strings *)

NL == "\n"

Digits == {"0", "1", "2", "3", "4", "5", "6", "7", "8", "9"}

LowerCase == {"a", "b", "c", "d", "e", "f", "g", "h", "i", "j", "k", "l", "m",
              "n", "o", "p", "q", "r", "s", "t", "u", "v", "w", "x", "y", "z"}

UpperCase == {"A", "B", "C", "D", "E", "F", "G", "H", "I", "J", "K", "L", "M",
              "N", "O", "P", "Q", "R", "S", "T", "U", "V", "W", "X", "Y", "Z"}

\* std::isspace in the "C" locale, restricted to the characters of the model
IsSpace(c) == c \in {" ", NL}

DigitValue(c) ==
    CASE c = "0" -> 0 [] c = "1" -> 1 [] c = "2" -> 2 [] c = "3" -> 3
      [] c = "4" -> 4 [] c = "5" -> 5 [] c = "6" -> 6 [] c = "7" -> 7
      [] c = "8" -> 8 [] c = "9" -> 9

Drop(s, n) == SubSeq(s, n + 1, Len(s))

\* std::numeric_limits<int>::max()
IntMax == 2147483647

IntMin == -IntMax - 1

----------------------------------------------------------------------------
(* std::istream operations on the unread characters *)

\* the sentry of a formatted read: leading white space is skipped
RECURSIVE SkipWs(_)
SkipWs(s) ==
    IF s # <<>> /\ IsSpace(s[1]) THEN SkipWs(Tail(s)) ELSE s

\* num_get: accumulate the decimal digits at the head of s; neg says a "-"
\* preceded them.  acc is the value so far (negative when neg), over says
\* the value left the range of int, n counts the digits taken.
RECURSIVE ScanDigits(_, _, _, _, _)
ScanDigits(s, neg, acc, over, n) ==
    IF s = <<>> \/ s[1] \notin Digits
    THEN [value |-> acc, over |-> over, rest |-> s, n |-> n]
    ELSE LET d == DigitValue(s[1])
             fits == IF neg
                     THEN -acc <= (IF d = 0 THEN IntMax \div 10
                                   ELSE (IntMax - d + 1) \div 10)
                     ELSE acc <= (IntMax - d) \div 10
         IN  IF over \/ ~fits
             THEN ScanDigits(Tail(s), neg, acc, TRUE, n + 1)
             ELSE ScanDigits(Tail(s), neg,
                             IF neg THEN acc * 10 - d ELSE acc * 10 + d,
                             FALSE, n + 1)

\* cin >> choice on the unread characters s; e says the input has ended and
\* old is the value of choice before the read.  ok is the state of the
\* stream after the read, value the new value of choice, rest what is left
\* unread.
ExtractInt(s, e, old) ==
    LET t == SkipWs(s) IN
    IF e \/ t = <<>>
    THEN [ok |-> FALSE, value |-> old, rest |-> <<>>]
    ELSE LET neg == t[1] = "-"
             u   == IF t[1] \in {"+", "-"} THEN Tail(t) ELSE t
             sc  == ScanDigits(u, neg, 0, FALSE, 0)
         IN  IF sc.n = 0
             THEN [ok |-> FALSE, value |-> 0, rest |-> u]
             ELSE IF sc.over
             THEN [ok |-> FALSE,
                   value |-> IF neg THEN IntMin ELSE IntMax,
                   rest |-> sc.rest]
             ELSE [ok |-> TRUE, value |-> sc.value, rest |-> sc.rest]

\* cin.ignore(): one character is extracted and discarded
Ignore(s) == IF s = <<>> THEN s ELSE Tail(s)

\* cin.get(): one character is extracted
Get(s) == IF s = <<>> THEN s ELSE Tail(s)

\* the characters of s before its first line terminator
RECURSIVE UpToNL(_)
UpToNL(s) ==
    IF s = <<>> \/ s[1] = NL THEN <<>> ELSE <<s[1]>> \o UpToNL(Tail(s))

\* getline(cin, input): the line is stored without its terminator, which
\* is extracted too
GetLine(s) ==
    LET l == UpToNL(s) IN
    [line |-> l, rest |-> Drop(s, IF Len(l) < Len(s) THEN Len(l) + 1 ELSE Len(l))]

----------------------------------------------------------------------------
(* std::regex: the two patterns of the program have the shape ^[cls]{lo,hi}$; *)
(* hi < 0 stands for no upper limit                                          *)

\* the text pattern with * in place of +
TextRegexStar == [cls |-> LowerCase \cup UpperCase \cup Digits \cup {" "},
                  lo |-> 0, hi |-> -1]

\* regex("^[a-zA-Z0-9 ]+$")
TextRegex == [cls |-> LowerCase \cup UpperCase \cup Digits \cup {" "},
              lo |-> 1, hi |-> -1]

\* a pattern for four or more digits
YearRegexNoMax == [cls |-> Digits, lo |-> 4, hi |-> -1]

\* regex("^[0-9]{4}$")
YearRegex == [cls |-> Digits, lo |-> 4, hi |-> 4]

\* the number of characters at the head of s that are in cls
RECURSIVE CountPrefix(_, _)
CountPrefix(s, cls) ==
    IF s = <<>> \/ s[1] \notin cls THEN 0 ELSE 1 + CountPrefix(Tail(s), cls)

\* a match of the head of input only, as regex_search without anchors
RegexMatchPrefix(input, re) ==
    LET k == CountPrefix(input, re.cls) IN
    /\ re.lo <= k
    /\ (re.hi < 0 \/ k <= re.hi)

\* regex_match(input, re): the whole of input matches
RegexMatch(input, re) ==
    LET k == CountPrefix(input, re.cls) IN
    /\ k = Len(input)
    /\ re.lo <= k
    /\ (re.hi < 0 \/ k <= re.hi)

----------------------------------------------------------------------------
(* Standard output: a sequence of items *)

\* a piece of text written to cout
T(s) == [kind |-> "text", text |-> s]

\* clearScreen()
ClearScreen == <<[kind |-> "clear"]>>

\* one numbered line of the menu
Item(i, label) == [kind |-> "item", num |-> i, label |-> label]

\* one data row of the table
Row(b) == [kind |-> "row", title |-> b.title, author |-> b.author,
           year |-> b.year]

Invalid == T("Invalid input. Please try again.")

ChoicePrompt == T("Enter your choice: ")

PressEnter == T("Press enter to continue...")

TableHead == <<T("top border"), T("Title Author Year"), T("middle border")>>

TableFoot == <<T("bottom border")>>

NoBooksBox == <<T("top border"), T("No books to display"), T("bottom border")>>

\* main: the field widths of the table
nameWidth == 20

authorWidth == 20

yearWidth == 10

\* the character c, n times
Rep(c, n) == [i \in 1 .. n |-> c]

\* cout << left << setw(w) << s: s is filled with spaces on the right up to
\* w characters; a longer s is written whole
SetwLeft(w, s) == IF Len(s) >= w THEN s ELSE s \o Rep(" ", w - Len(s))

\* the characters of one data row, one per display column; the box-drawing
\* characters are written "|", "-" and "+" here
RowText(b) ==
    <<"|", " ">> \o SetwLeft(nameWidth, b.title)
    \o <<"|", " ">> \o SetwLeft(authorWidth, b.author)
    \o <<"|", " ">> \o SetwLeft(yearWidth, b.year)
    \o <<"|">>

\* the top, middle and bottom border literals of the table
BorderText ==
    <<"+">> \o Rep("-", 21) \o <<"+">> \o Rep("-", 21) \o <<"+">>
    \o Rep("-", 11) \o <<"+">>

\* the header literal of the table
HeaderText ==
    <<"|", " ", "T", "i", "t", "l", "e">> \o Rep(" ", 15)
    \o <<"|", " ", "A", "u", "t", "h", "o", "r">> \o Rep(" ", 14)
    \o <<"|", " ", "Y", "e", "a", "r">> \o Rep(" ", 6)
    \o <<"|">>

----------------------------------------------------------------------------
(* Book, LibraryAction, Library *)

\* Book::Book
Book(t, a, y) == [title |-> t, author |-> a, year |-> y]

\* LibraryAction::LibraryAction; the callback is named by a tag
LibraryAction(label, cb) == [title |-> label, action |-> cb]

\* Library::addAction
addAction(acts, name, cb) == Append(acts, LibraryAction(name, cb))

\* an addBook that skips a book whose title is already stored
addBookDedup(bs, book) ==
    IF \E i \in DOMAIN bs : bs[i].title = book.title THEN bs
    ELSE Append(bs, book)

\* an addBook that inserts at the front
addBookFront(bs, book) == <<book>> \o bs

\* Library::addBook
addBook(bs, book) == Append(bs, book)

\* Library::findBook, the scan from position i on; 0 is nullptr
RECURSIVE FindFrom(_, _, _)
FindFrom(bs, t, i) ==
    IF i > Len(bs) THEN 0
    ELSE IF bs[i].title = t THEN i
    ELSE FindFrom(bs, t, i + 1)

\* a findBook that keeps scanning and returns the last match
RECURSIVE FindLastFrom(_, _, _)
FindLastFrom(bs, t, i) ==
    IF i < 1 THEN 0
    ELSE IF bs[i].title = t THEN i
    ELSE FindLastFrom(bs, t, i - 1)

findBookLast(bs, t) == FindLastFrom(bs, t, Len(bs))

\* Library::findBook
findBook(bs, t) == FindFrom(bs, t, 1)

\* the registrations of main, in order
MainActions == <<LibraryAction("Add a book", "add"),
                 LibraryAction("Search book", "search"),
                 LibraryAction("Display books", "display")>>

\* exitAction of Library::run
exitAction == LibraryAction("Exit", "exit")

\* a displayMenu that numbers the entries from 0
displayMenuFromZero(acts) ==
    ClearScreen
    \o <<T("Welcome to the library!"), T(""), T("Please choose an action:")>>
    \o [i \in 1 .. Len(acts) |-> Item(i - 1, acts[i].title)]
    \o <<Item(Len(acts), "Exit"), T("")>>

\* displayMenu of Library::run
displayMenu(acts) ==
    ClearScreen
    \o <<T("Welcome to the library!"), T(""), T("Please choose an action:")>>
    \o [i \in 1 .. Len(acts) |-> Item(i, acts[i].title)]
    \o <<Item(Len(acts) + 1, exitAction.title), T("")>>

\* the top of the outer loop of Library::run up to the first read
LoopTop(acts) == ClearScreen \o displayMenu(acts) \o <<ChoicePrompt>>

\* the output of a rejected choice and the prompt that follows it
Reprompt(acts) == ClearScreen \o displayMenu(acts) \o <<Invalid, ChoicePrompt>>

\* a range test with the upper limit left out
InRangeNoUpper(c, n) == ~(c < 1)

\* the test of Library::run that lets a choice through (n registered actions)
InRange(c, n) == ~(c < 1 \/ c > n + 1)

\* the index of choice c with the subtraction of 1 left out
ActionIndexOffByOne(c) == c

\* the index into actions that Library::run uses for choice c
ActionIndex(c) == c - 1

\* a test for the exit entry that takes the last registered action for it
IsExitOffByOne(c, n) == c = n

\* the test of Library::run for the exit entry
IsExit(c, n) == c = n + 1

\* a Display books whose loop leaves out the last book
DisplayBooksButLast(bs) ==
    (IF bs = <<>>
     THEN NoBooksBox
     ELSE TableHead \o [i \in 1 .. Len(bs) - 1 |-> Row(bs[i])] \o TableFoot)
    \o <<PressEnter>>

\* the body of the Display books callback up to its read
DisplayBooks(bs) ==
    (IF bs = <<>>
     THEN NoBooksBox
     ELSE TableHead \o [i \in 1 .. Len(bs) |-> Row(bs[i])] \o TableFoot)
    \o <<PressEnter>>

\* a Search book whose test of the result is inverted (the row it would
\* print from the null pointer is left out)
SearchResultInverted(bs, found) ==
    ClearScreen
    \o (IF found = 0
        THEN <<T("Book found."), T("")>> \o TableHead \o TableFoot
        ELSE <<T("Book not found.")>>)
    \o <<PressEnter>>

\* the output of the Search book callback after findBook (found is its result)
SearchResult(bs, found) ==
    ClearScreen
    \o (IF found # 0
        THEN <<T("Book found."), T("")>> \o TableHead \o <<Row(bs[found])>>
             \o TableFoot
        ELSE <<T("Book not found.")>>)
    \o <<PressEnter>>

\* getValidatedString that accepts every line
getValidatedStringNoCheck(prompt, re, s) ==
    LET g == GetLine(s)
    IN  [matched |-> TRUE, input |-> g.line, rest |-> g.rest, out |-> <<>>]

\* one call of getValidatedString after its prompt is written: the line is
\* read from s and matched; on a mismatch the error and the prompt of the
\* recursive call are written
getValidatedString(prompt, re, s) ==
    LET g == GetLine(s)
        m == RegexMatch(g.line, re)
    IN  [matched |-> m, input |-> g.line, rest |-> g.rest,
         out |-> IF m THEN <<>> ELSE ClearScreen \o <<Invalid, T(prompt)>>]

----------------------------------------------------------------------------
(* The lines the user enters *)

Dune == <<"D", "u", "n", "e">>

dune == <<"d", "u", "n", "e">>

FrankHerbert == <<"F", "r", "a", "n", "k", " ", "H", "e", "r", "b", "e", "r", "t">>

\* lines entered at the menu prompt
ChoiceLines ==
    { <<"1">>, <<"2">>, <<"3">>, <<"4">>, <<"0">>, <<"5">>, <<"-", "1">>,
      <<"a">>, <<"x", "1">>, <<"1", "a", "b">>, <<"1", " ">>, <<"0", " ", "3">>,
      <<>>, <<"4", "2", "9", "4", "9", "6", "7", "2", "9", "7">> }

\* lines entered at the title, author and search prompts
TextLines == { Dune, dune, FrankHerbert, <<"D", "!">>, <<>> }

\* lines entered at the year prompt
YearLines ==
    { <<"1", "9", "6", "5">>, <<"9", "9">>, <<"1", "9", "9", "9", "9">>,
      <<"1", "9", "a", "9">>, <<" ", "1", "9", "9", "9">>,
      <<"1", "9", "9", "9", " ">>, <<>> }

\* lines entered at "Press enter to continue..."
PauseLines == { <<>>, <<"x", "1">> }

LinesAt(p) ==
    CASE p = "choice" -> ChoiceLines
      [] p \in {"title", "author", "search"} -> TextLines
      [] p = "year" -> YearLines
      [] p = "pause" -> PauseLines
      [] OTHER -> {}

----------------------------------------------------------------------------
(* The program *)

ReadPcs == {"choice", "title", "author", "year", "search", "pause"}

\* the read the program is in cannot go on without more input
Blocked ==
    /\ ~eof
    /\ pc \in ReadPcs
    /\ IF pc = "choice" THEN SkipWs(buf) = <<>> ELSE buf = <<>>

\* the read the program is in goes on
CanRead == pc \in ReadPcs /\ ~Blocked

\* Library::Library, before main registers its actions
Init ==
    /\ pc = "main"
    /\ books = <<>>
    /\ actions = <<>>
    /\ running = FALSE
    /\ choice = 0
    /\ buf = <<>>
    /\ eof = FALSE
    /\ title = <<>>
    /\ author = <<>>
    /\ query = <<>>
    /\ foundBook = 0
    /\ passed = <<>>
    /\ invoked = <<>>
    /\ out = <<>>
    /\ typed = [at |-> "main", line |-> <<>>]

\* the user enters a line; the blocked read has taken the white space that
\* was left unread
TypeLine ==
    /\ Blocked
    /\ \E l \in LinesAt(pc) :
          /\ buf' = l \o <<NL>>
          /\ typed' = [at |-> pc, line |-> l]
    /\ UNCHANGED <<pc, books, actions, running, choice, eof, title, author,
                   query, foundBook, passed, invoked, out>>

\* the user ends the input
CloseInput ==
    /\ Blocked
    /\ eof' = TRUE
    /\ UNCHANGED <<pc, books, actions, running, choice, buf, title, author,
                   query, foundBook, passed, invoked, out, typed>>

\* main: library.addAction(...), three times
RegisterAction ==
    /\ pc = "main"
    /\ Len(actions) < Len(MainActions)
    /\ LET a == MainActions[Len(actions) + 1] IN
          actions' = addAction(actions, a.title, a.action)
    /\ UNCHANGED <<pc, books, running, choice, buf, eof, title, author,
                   query, foundBook, passed, invoked, out, typed>>

\* main: library.run(), up to the first read
Run ==
    /\ pc = "main"
    /\ Len(actions) = Len(MainActions)
    /\ running' = TRUE
    /\ choice' = 0
    /\ out' = LoopTop(actions)
    /\ pc' = "choice"
    /\ UNCHANGED <<books, actions, buf, eof, title, author, query, foundBook,
                   passed, invoked, typed>>

\* a callback has returned: the next iteration of the outer loop of
\* Library::run up to its read; o is what the callback wrote before
BackToMenu(o) ==
    /\ pc' = "choice"
    /\ choice' = 0
    /\ passed' = <<>>
    /\ out' = o \o LoopTop(actions)

\* cin >> choice fails
ChoiceFail ==
    /\ pc = "choice" /\ CanRead
    /\ LET r == ExtractInt(buf, eof, choice) IN
          /\ ~r.ok
          /\ choice' = r.value
          /\ buf' = Ignore(r.rest)
    /\ out' = Reprompt(actions)
    /\ invoked' = <<>>
    /\ UNCHANGED <<pc, books, actions, running, eof, title, author, query,
                   foundBook, passed, typed>>

\* the choice is out of range
ChoiceOutOfRange ==
    /\ pc = "choice" /\ CanRead
    /\ LET r == ExtractInt(buf, eof, choice) IN
          /\ r.ok
          /\ ~InRange(r.value, Len(actions))
          /\ choice' = r.value
          /\ buf' = r.rest
    /\ out' = Reprompt(actions)
    /\ invoked' = <<>>
    /\ UNCHANGED <<pc, books, actions, running, eof, title, author, query,
                   foundBook, passed, typed>>

\* the choice is the exit entry: exitAction runs and the loop is left
ChoiceExit ==
    /\ pc = "choice" /\ CanRead
    /\ LET r == ExtractInt(buf, eof, choice) IN
          /\ r.ok
          /\ InRange(r.value, Len(actions))
          /\ IsExit(r.value, Len(actions))
          /\ choice' = r.value
          /\ buf' = Ignore(r.rest)
    /\ passed' = books
    /\ out' = ClearScreen \o <<T("Thank you for using the library!")>>
    /\ running' = FALSE
    /\ invoked' = <<>>
    /\ pc' = "done"
    /\ UNCHANGED <<books, actions, eof, title, author, query, foundBook,
                   typed>>

\* the part of a registered callback up to its first read: where it blocks
\* and what it wrote (bs is the vector it was handed)
Callback(cb, bs) ==
    CASE cb = "add" ->
           [pc |-> "title",
            out |-> <<T("Enter book details: "), T(""), T("Enter title: ")>>]
      [] cb = "search" ->
           [pc |-> "search",
            out |-> ClearScreen \o <<T("Enter book title: ")>>]
      [] cb = "display" ->
           [pc |-> "pause", out |-> DisplayBooks(bs)]

\* the choice is a registered action: actions[choice - 1].getAction()(books).
\* An index outside the vector is undefined behaviour.
Dispatch ==
    /\ pc = "choice" /\ CanRead
    /\ LET r == ExtractInt(buf, eof, choice) IN
          /\ r.ok
          /\ InRange(r.value, Len(actions))
          /\ ~IsExit(r.value, Len(actions))
          /\ choice' = r.value
          /\ buf' = Ignore(r.rest)
          /\ invoked' = <<ActionIndex(r.value)>>
          /\ passed' = books
          /\ IF ActionIndex(r.value) + 1 \in DOMAIN actions
             THEN LET c == Callback(actions[ActionIndex(r.value) + 1].action,
                                    books) IN
                     /\ pc' = c.pc
                     /\ out' = ClearScreen \o c.out
             ELSE /\ pc' = "crashed"
                  /\ out' = ClearScreen
    /\ UNCHANGED <<books, actions, running, eof, title, author, query,
                   foundBook, typed>>

\* Book::getBookFromInput: the read of the title
ReadTitle ==
    /\ pc = "title" /\ CanRead
    /\ LET v == getValidatedString("Enter title: ", TextRegex, buf) IN
          /\ buf' = v.rest
          /\ IF v.matched
             THEN /\ title' = v.input
                  /\ pc' = "author"
                  /\ out' = <<T("Enter author: ")>>
             ELSE /\ out' = v.out
                  /\ UNCHANGED <<title, pc>>
    /\ invoked' = <<>>
    /\ UNCHANGED <<books, actions, running, choice, eof, author, query,
                   foundBook, passed, typed>>

\* Book::getBookFromInput: the read of the author
ReadAuthor ==
    /\ pc = "author" /\ CanRead
    /\ LET v == getValidatedString("Enter author: ", TextRegex, buf) IN
          /\ buf' = v.rest
          /\ IF v.matched
             THEN /\ author' = v.input
                  /\ pc' = "year"
                  /\ out' = <<T("Enter year: ")>>
             ELSE /\ out' = v.out
                  /\ UNCHANGED <<author, pc>>
    /\ invoked' = <<>>
    /\ UNCHANGED <<books, actions, running, choice, eof, title, query,
                   foundBook, passed, typed>>

\* Book::getBookFromInput: the read of the year; when it is accepted the
\* Add a book callback adds the book and returns
ReadYear ==
    /\ pc = "year" /\ CanRead
    /\ LET v == getValidatedString("Enter year: ", YearRegex, buf) IN
          /\ buf' = v.rest
          /\ IF v.matched
             THEN /\ Len(books) < MaxBooks
                  /\ books' = addBook(books, Book(title, author, v.input))
                  /\ title' = <<>>
                  /\ author' = <<>>
                  /\ BackToMenu(<<>>)
             ELSE /\ out' = v.out
                  /\ UNCHANGED <<books, title, author, pc, choice, passed>>
    /\ invoked' = <<>>
    /\ UNCHANGED <<actions, running, eof, query, foundBook, typed>>

\* Search book: the read of the title; when it is accepted findBook is
\* called and the result is written
ReadSearch ==
    /\ pc = "search" /\ CanRead
    /\ LET v == getValidatedString("Enter book title: ", TextRegex, buf) IN
          /\ buf' = v.rest
          /\ IF v.matched
             THEN /\ query' = v.input
                  /\ foundBook' = findBook(books, v.input)
                  /\ out' = SearchResult(books, foundBook')
                  /\ pc' = "pause"
             ELSE /\ out' = v.out
                  /\ UNCHANGED <<query, foundBook, pc>>
    /\ invoked' = <<>>
    /\ UNCHANGED <<books, actions, running, choice, eof, title, author,
                   passed, typed>>

\* Search book and Display books: cin.get(), then the callback returns
Pause ==
    /\ pc = "pause" /\ CanRead
    /\ buf' = Get(buf)
    /\ query' = <<>>
    /\ foundBook' = 0
    /\ BackToMenu(<<>>)
    /\ invoked' = <<>>
    /\ UNCHANGED <<books, actions, running, eof, title, author, typed>>

\* getValidatedString at the end of the input: every call reads the empty
\* line and calls itself again, until the stack is used up
StackOverflow ==
    /\ pc \in {"title", "author", "year", "search"}
    /\ eof
    /\ pc' = "crashed"
    /\ UNCHANGED <<books, actions, running, choice, buf, eof, title, author,
                   query, foundBook, passed, invoked, out, typed>>

Next ==
    \/ TypeLine
    \/ CloseInput
    \/ RegisterAction
    \/ Run
    \/ ChoiceFail
    \/ ChoiceOutOfRange
    \/ ChoiceExit
    \/ Dispatch
    \/ ReadTitle
    \/ ReadAuthor
    \/ ReadYear
    \/ ReadSearch
    \/ Pause
    \/ StackOverflow

Spec == Init /\ [][Next]_vars

----------------------------------------------------------------------------
(* getValidatedString on every short line: the program is taken at the    *)
(* year prompt of its first Add and at the prompt of a Search, and the    *)
(* user enters any short line                                             *)

YearChars == {"1", "9", "a", " "}

TextChars == {"a", "Z", "1", " ", "!"}

AllLines(chars, max) == UNION { [1 .. n -> chars] : n \in 0 .. max }

AllLinesAt(p) ==
    IF p = "year" THEN AllLines(YearChars, MaxYearLen)
    ELSE AllLines(TextChars, MaxTextLen)

\* choice 1 was dispatched and the title and the author were accepted
AtYearPrompt ==
    /\ pc = "year"
    /\ books = <<>>
    /\ actions = MainActions
    /\ running = TRUE
    /\ choice = 1
    /\ buf = <<>>
    /\ eof = FALSE
    /\ title = Dune
    /\ author = FrankHerbert
    /\ query = <<>>
    /\ foundBook = 0
    /\ passed = <<>>
    /\ invoked = <<>>
    /\ out = <<T("Enter year: ")>>
    /\ typed = [at |-> "author", line |-> FrankHerbert]

\* choice 2 was dispatched
AtSearchPrompt ==
    /\ pc = "search"
    /\ books = <<>>
    /\ actions = MainActions
    /\ running = TRUE
    /\ choice = 2
    /\ buf = <<>>
    /\ eof = FALSE
    /\ title = <<>>
    /\ author = <<>>
    /\ query = <<>>
    /\ foundBook = 0
    /\ passed = <<>>
    /\ invoked = <<1>>
    /\ out = ClearScreen \o ClearScreen \o <<T("Enter book title: ")>>
    /\ typed = [at |-> "choice", line |-> <<"2">>]

InitReader == AtYearPrompt \/ AtSearchPrompt

TypeAnyLine ==
    /\ Blocked
    /\ pc \in {"year", "search"}
    /\ \E l \in AllLinesAt(pc) :
          /\ buf' = l \o <<NL>>
          /\ typed' = [at |-> pc, line |-> l]
    /\ UNCHANGED <<pc, books, actions, running, choice, eof, title, author,
                   query, foundBook, passed, invoked, out>>

NextReader ==
    \/ TypeAnyLine
    \/ ReadYear
    \/ ReadSearch

SpecReader == InitReader /\ [][NextReader]_vars

----------------------------------------------------------------------------
(* The table on short and long fields: the program from its start, where  *)
(* the user adds books whose title and author are 1, nameWidth and        *)
(* nameWidth + 1 characters long, searches for them and displays them     *)

TableTexts ==
    { <<"a">>, Rep("a", nameWidth), Rep("a", nameWidth + 1) }

TableLinesAt(p) ==
    CASE p = "choice" -> { <<"1">>, <<"2">>, <<"3">> }
      [] p \in {"title", "author", "search"} -> TableTexts
      [] p = "year" -> { <<"1", "9", "6", "5">> }
      [] p = "pause" -> { <<>> }
      [] OTHER -> {}

TypeTableLine ==
    /\ Blocked
    /\ \E l \in TableLinesAt(pc) :
          /\ buf' = l \o <<NL>>
          /\ typed' = [at |-> pc, line |-> l]
    /\ UNCHANGED <<pc, books, actions, running, choice, eof, title, author,
                   query, foundBook, passed, invoked, out>>

NextTable ==
    \/ TypeTableLine
    \/ RegisterAction
    \/ Run
    \/ Dispatch
    \/ ReadTitle
    \/ ReadAuthor
    \/ ReadYear
    \/ ReadSearch
    \/ Pause

SpecTable == Init /\ [][NextTable]_vars

----------------------------------------------------------------------------
(* Properties *)

\* the number of registered actions
N == Len(actions)

IsPrefix(s, t) == Len(s) <= Len(t) /\ SubSeq(t, 1, Len(s)) = s

\* the items of kind k in the output o, in order
OfKind(o, k) == SelectSeq(o, LAMBDA x : x.kind = k)

\* the output o holds the text s
Wrote(o, s) == \E i \in DOMAIN o : o[i] = T(s)

\* l without the spaces at its two ends
RECURSIVE StripLeft(_)
StripLeft(l) == IF l # <<>> /\ l[1] = " " THEN StripLeft(Tail(l)) ELSE l

RECURSIVE StripRight(_)
StripRight(l) ==
    IF l # <<>> /\ l[Len(l)] = " " THEN StripRight(SubSeq(l, 1, Len(l) - 1))
    ELSE l

\* the value of a short string of decimal digits
RECURSIVE DecValue(_)
DecValue(s) ==
    IF s = <<>> THEN 0
    ELSE 10 * DecValue(SubSeq(s, 1, Len(s) - 1)) + DigitValue(s[Len(s)])

\* the line l is a decimal integer (spaces around it and a plus sign
\* allowed) whose value is in lo .. hi
IsNumberIn(l, lo, hi) ==
    LET t == StripRight(StripLeft(l))
        u == IF t # <<>> /\ t[1] = "+" THEN Tail(t) ELSE t
    IN  /\ u # <<>>
        /\ Len(u) <= 9
        /\ \A i \in DOMAIN u : u[i] \in Digits
        /\ DecValue(u) \in lo .. hi

\* C1: a callback is dispatched, or the loop is left, only for a menu line
\* that is an integer in [1, N+1]; lines holding 0, N+2, a negative value
\* or text that is not a number (such as "1abc") never lead to a dispatch,
\* and the index used for the dispatch is within 0 .. N-1.
C1_ChoiceValidation ==
    /\ invoked # <<>> => invoked[1] \in 0 .. N - 1
    /\ (typed.at = "choice" /\ (invoked # <<>> \/ pc = "done"))
          => IsNumberIn(typed.line, 1, N + 1)

\* the first book of bs, in insertion order, whose title is t (0 when none)
FirstWithTitle(bs, t) ==
    IF \E i \in DOMAIN bs : bs[i].title = t
    THEN CHOOSE i \in DOMAIN bs :
            /\ bs[i].title = t
            /\ \A j \in 1 .. i - 1 : bs[j].title # t
    ELSE 0

FullyMatches(l, p) ==
    IF p = "year"
    THEN Len(l) = 4 /\ \A i \in DOMAIN l : l[i] \in Digits
    ELSE /\ l # <<>>
         /\ \A i \in DOMAIN l :
               l[i] \in LowerCase \cup UpperCase \cup Digits \cup {" "}

\* the prompt of the read the program is in at p
PromptAt(p) ==
    CASE p = "title" -> T("Enter title: ")
      [] p = "author" -> T("Enter author: ")
      [] p = "year" -> T("Enter year: ")
      [] p = "search" -> T("Enter book title: ")

\* C3: getValidatedString returns the first line that fully matches its
\* pattern, unchanged: a line that matches is returned by the call that
\* reads it with no error message; a line that does not match (the empty
\* line too) is never returned, it is answered by exactly one "Invalid
\* input. Please try again." and the prompt again, and the reader goes on
\* reading.  For the year pattern and the text pattern, every short line.
C3_FirstMatchReturned ==
    /\ [][(pc \in {"year", "search"} /\ CanRead) =>
            IF FullyMatches(typed.line, pc)
            THEN /\ pc' # pc
                 /\ IF pc = "year"
                    THEN books'[Len(books')].year = typed.line
                    ELSE query' = typed.line
                 /\ Invalid \notin {out'[i] : i \in DOMAIN out'}
            ELSE /\ pc' = pc
                 /\ books' = books
                 /\ query' = query
                 /\ Len(SelectSeq(out', LAMBDA x : x = Invalid)) = 1
                 /\ out'[Len(out')] = PromptAt(pc)
                 /\ buf' = <<>>
          ]_vars
    /\ [](pc = "pause" => FullyMatches(query, "search") /\ query = typed.line)
    /\ [](pc = "choice" =>
             /\ FullyMatches(books[Len(books)].year, "year")
             /\ books[Len(books)].year = typed.line)

\* the line "a!" was rejected at the prompt of Search: one error message,
\* the prompt again, and the reader waits for the next line
C3_Witness ==
    /\ pc = "search"
    /\ typed = [at |-> "search", line |-> <<"a", "!">>]
    /\ out = ClearScreen \o <<Invalid, T("Enter book title: ")>>
    /\ query = <<>>
    /\ Blocked

\* C4: at the "Enter year: " prompt a line is accepted, and the book added
\* with it as its year, if and only if it is exactly 4 characters that are
\* all decimal digits; any other line is rejected and the prompt repeated.
C4_YearExactlyFourDigits ==
    [][(pc = "year" /\ CanRead) =>
         LET accepted == /\ pc' = "choice"
                         /\ books' = Append(books,
                                            Book(title, author, typed.line))
             fourDigits == /\ Len(typed.line) = 4
                           /\ \A i \in 1 .. Len(typed.line) :
                                 typed.line[i] \in Digits
         IN  /\ accepted <=> fourDigits
             /\ ~accepted => /\ pc' = "year"
                             /\ books' = books
                             /\ out'[Len(out')] = T("Enter year: ")
      ]_vars

\* "1999" was accepted at the year prompt
C4_Witness ==
    /\ pc = "choice"
    /\ typed = [at |-> "year", line |-> <<"1", "9", "9", "9">>]
    /\ books = <<Book(Dune, FrankHerbert, <<"1", "9", "9", "9">>)>>

Farewell == "Thank you for using the library!"

\* the rows that show the books bs, in order
RowsOf(bs) ==
    [i \in 1 .. Len(bs) |->
        [kind |-> "row", title |-> bs[i].title, author |-> bs[i].author,
         year |-> bs[i].year]]

\* where the callback registered under a label blocks first
EntryOf(label) ==
    CASE label = "Add a book" -> "title"
      [] label = "Search book" -> "search"
      [] label = "Display books" -> "pause"
      [] OTHER -> "none"

\* the last n items of the output o
Ending(o, n) == SubSeq(o, Len(o) - n + 1, Len(o))

\* C5: accepting choice N+1 writes the farewell message and ends run()
\* (Terminated: no step follows) without invoking a registered callback,
\* without rendering the menu again and without touching the books; with
\* the 3 actions of main the line "4" entered first ends the program with
\* the book list empty.
C5_ExitTerminates ==
    [][/\ (pc = "choice" /\ CanRead) =>
            LET r == ExtractInt(buf, eof, choice) IN
               (r.ok /\ r.value = N + 1) =>
                  /\ pc' = "done"
                  /\ ~running'
                  /\ invoked' = <<>>
                  /\ books' = books
                  /\ Wrote(out', Farewell)
                  /\ OfKind(out', "item") = <<>>
       /\ (pc = "choice" /\ buf = <<"4", NL>> /\ books = <<>>) =>
             pc' = "done" /\ books' = <<>> /\ invoked' = <<>>
       /\ pc = "done" => UNCHANGED vars
      ]_vars

\* "4" was the first line entered and the program has ended
C5_Witness ==
    /\ pc = "done"
    /\ typed = [at |-> "choice", line |-> <<"4">>]
    /\ choice = 4
    /\ books = <<>>
    /\ ~running
    /\ out = ClearScreen \o <<T(Farewell)>>

\* C6: when Display has been dispatched, the vector it was handed is the
\* book list of the store, the "No books to display" box is written if and
\* only if the list is empty (no Add has completed), and otherwise the table
\* has exactly one row per stored book, in insertion order, with that
\* book's title, author and year.
C6_DisplayShowsStore ==
    (pc = "pause" /\ invoked # <<>>) =>
       /\ actions[invoked[1] + 1].title = "Display books"
       /\ passed = books
       /\ Wrote(out, "No books to display") <=> books = <<>>
       /\ OfKind(out, "row") = RowsOf(books)
       /\ out[Len(out)] = PressEnter

\* after one Add of ("Dune", "Frank Herbert", "1965") Display wrote a table
\* with exactly that row
C6_Witness ==
    /\ pc = "pause"
    /\ invoked = <<2>>
    /\ books = <<Book(Dune, FrankHerbert, <<"1", "9", "6", "5">>)>>
    /\ OfKind(out, "row") =
          <<[kind |-> "row", title |-> Dune, author |-> FrankHerbert,
             year |-> <<"1", "9", "6", "5">>]>>
    /\ ~Wrote(out, "No books to display")

\* C7: a Search for title t writes "Book found." and the row of the
\* earliest-added book titled exactly t when there is one, and otherwise
\* "Book not found." and no row, and goes on to the pause either way.
C7_SearchOutcome ==
    (pc = "pause" /\ query # <<>>) =>
       LET i == FirstWithTitle(books, query) IN
          /\ invoked = <<>>
          /\ IF i # 0
             THEN /\ Wrote(out, "Book found.")
                  /\ ~Wrote(out, "Book not found.")
                  /\ OfKind(out, "row") = RowsOf(<<books[i]>>)
             ELSE /\ Wrote(out, "Book not found.")
                  /\ ~Wrote(out, "Book found.")
                  /\ OfKind(out, "row") = <<>>
          /\ out[Len(out)] = PressEnter

\* "Dune" is stored and a Search for "dune" wrote "Book not found."
C7_Witness ==
    /\ pc = "pause"
    /\ query = dune
    /\ Len(books) = 1
    /\ books[1].title = Dune
    /\ foundBook = 0
    /\ Wrote(out, "Book not found.")

\* C8: every step leaves the book list a prefix of what it is afterwards:
\* no step removes, reorders or rewrites a stored book.
C8_BooksOnlyGrow == [][IsPrefix(books, books')]_vars

\* two different books were added, one after the other
C8_Witness ==
    /\ pc = "choice"
    /\ Len(books) = 2
    /\ books[1] # books[2]
    /\ typed.at = "year"

\* the menu as it must look for the registered actions acts
MenuItems(acts) ==
    [i \in 1 .. Len(acts) + 1 |->
        [kind |-> "item", num |-> i,
         label |-> IF i <= Len(acts) THEN acts[i].title ELSE "Exit"]]

\* C9: every output of run() that renders the menu lists the registered
\* actions in registration order, numbered 1..N, then "Exit" as N+1; the
\* registry keeps its order while it is filled, does not change during
\* run() and never holds Exit; the number shown next to a label is the
\* choice that starts the callback registered under that label, and N+1 is
\* the choice that ends run().
C9_MenuNumbering ==
    /\ [](LET items == OfKind(out, "item") IN
             items = <<>> \/ (pc # "main" /\ items = MenuItems(actions)))
    /\ [](\A i \in DOMAIN actions :
             actions[i].title # "Exit" /\ actions[i].action # "exit")
    /\ [](pc # "main" => actions = MainActions)
    /\ [][IsPrefix(actions, actions') /\ (pc # "main" => actions' = actions)
         ]_vars
    /\ [][(pc = "choice" /\ invoked' # <<>>) =>
             /\ choice' \in 1 .. N
             /\ pc' = EntryOf(MenuItems(actions)[choice'].label)
         ]_vars
    /\ [][(pc = "choice" /\ pc' = "done") =>
             MenuItems(actions)[choice'].label = "Exit"]_vars

\* the menu was rendered again after the rejected choice "5"
C9_Witness ==
    /\ pc = "choice"
    /\ typed = [at |-> "choice", line |-> <<"5">>]
    /\ choice = 5
    /\ OfKind(out, "item") = MenuItems(MainActions)
    /\ out[Len(out) - 1] = Invalid

\* C10: when a choice c with 1 <= c <= N is accepted, exactly one callback
\* is invoked, the one registered at index c-1, once, with the current book
\* list; no step the program takes outside the menu invokes a callback;
\* and when the callback returns run() is still running, the menu is
\* rendered again and a new choice is awaited.
C10_DispatchThenMenu ==
    /\ [][(pc = "choice" /\ CanRead) =>
             LET r == ExtractInt(buf, eof, choice) IN
                (r.ok /\ r.value \in 1 .. N) =>
                   /\ invoked' = <<r.value - 1>>
                   /\ passed' = books
                   /\ books' = books
                   /\ pc' = EntryOf(MainActions[r.value].title)
                   /\ running'
         ]_vars
    /\ [][(pc # "choice" /\ typed' = typed /\ eof' = eof /\ pc' # "crashed")
             => invoked' = <<>>]_vars
    /\ [][(pc \in {"title", "author", "year", "search", "pause"}
           /\ pc' \notin {"title", "author", "year", "search", "pause",
                          "crashed"}) =>
             /\ pc \in {"year", "pause"}
             /\ pc' = "choice"
             /\ running'
             /\ Len(out') >= Len(LoopTop(actions))
             /\ Ending(out', Len(LoopTop(actions))) = LoopTop(actions)
             /\ OfKind(out', "item") = MenuItems(actions)
         ]_vars

\* choice 2 was accepted with a book stored: the Search callback, index 1,
\* runs with the book list
C10_Witness ==
    /\ pc = "search"
    /\ choice = 2
    /\ invoked = <<1>>
    /\ books # <<>>
    /\ passed = books

\* C11: when an in-range choice is accepted the rest of its line, the line
\* terminator included, is consumed before the callback runs, so the
\* callback starts with nothing unread and its first read takes the next
\* line the user enters.  Stated for the choice lines that are an integer
\* in 1 .. N with spaces around it (such as "1 ").
C11_ChoiceLineConsumed ==
    (/\ invoked # <<>>
     /\ typed.at = "choice"
     /\ IsNumberIn(typed.line, 1, N))
       => buf = <<>>

\* the line l does not begin as a number: its first character is no digit,
\* sign or space
NonNumeric(l) == l # <<>> /\ l[1] \notin Digits \cup {"+", "-", " "}

\* C12: while a menu line that is non-numeric, or an integer outside
\* [1, N+1], is being consumed, the loop stays in AwaitingChoice: no read
\* of such a line dispatches a callback, ends run() or fails.
C12_BadLineStaysAtMenu ==
    [][(/\ pc = "choice"
        /\ CanRead
        /\ ~eof
        /\ typed.at = "choice"
        /\ \/ NonNumeric(typed.line)
           \/ IsNumberIn(typed.line, 0, 0)
           \/ IsNumberIn(typed.line, N + 2, 99))
          => pc' = "choice"
      ]_vars

C14_AddAppendsOneBook ==
    /\ [][(pc = "title" /\ pc' = "author") => title' = UpToNL(buf)]_vars
    /\ [][(pc = "author" /\ pc' = "year") =>
             author' = UpToNL(buf) /\ title' = title]_vars
    /\ [][(pc = "year" /\ pc' = "choice") =>
             /\ books' = books \o <<[title |-> title, author |-> author,
                                     year |-> UpToNL(buf)]>>
             /\ Len(books') = Len(books) + 1
             /\ \A i \in DOMAIN books : books'[i] = books[i]
         ]_vars

\* the same title and author were added twice: both books are stored
C14_Witness ==
    /\ pc = "choice"
    /\ typed.at = "year"
    /\ Len(books) = 2
    /\ books[1].title = Dune
    /\ books[2] = books[1]

\* s is not empty and holds ASCII letters, digits and spaces only
IsText(s) ==
    /\ Len(s) >= 1
    /\ \A i \in 1 .. Len(s) :
          s[i] \in LowerCase \cup UpperCase \cup Digits \cup {" "}

\* C15: in every reachable state every stored book has a title and an
\* author that are not empty and hold only ASCII letters, digits and
\* spaces, and a year of exactly 4 decimal digits.
C15_StoredBooksValid ==
    \A i \in 1 .. Len(books) :
       /\ IsText(books[i].title)
       /\ IsText(books[i].author)
       /\ Len(books[i].year) = 4
       /\ \A k \in 1 .. 4 : books[i].year[k] \in Digits

\* a book is stored whose title is what was left of the choice line "1ab"
C15_Witness ==
    /\ Len(books) = 2
    /\ books[1].title = <<"b">>
    /\ books[2].author = FrankHerbert

\* C16: what the user enters at "Press enter to continue..." is consumed by
\* the pause up to and including the line terminator and is never taken as
\* a menu choice: no callback is dispatched, and run() is not ended, by
\* characters of a line entered at the pause.
C16_PauseLineNotAChoice ==
    [][(/\ pc = "choice"
        /\ typed.at = "pause"
        /\ typed' = typed
        /\ eof' = eof)
          => (invoked' = <<>> /\ pc' = "choice")]_vars

\* C17: the book list is changed only by a completed Add, the step that
\* accepts a 4-digit year line at "Enter year: " and returns to the menu:
\* Search, Display, Exit, a rejected menu choice and a rejected text line
\* leave it as it was. A callback is handed a copy: while the callback runs
\* the copy equals the store, and the end of the copy's life when the
\* callback returns leaves the store as it was.
C17_OnlyAddChangesBooks ==
    /\ [][books' # books =>
             /\ pc = "year"
             /\ pc' = "choice"
             /\ FullyMatches(UpToNL(buf), "year")]_vars
    /\ [][(pc \in {"choice", "search", "pause", "title", "author", "done"})
             => books' = books]_vars
    /\ [](pc \in {"title", "author", "year", "search", "pause", "done"}
             => passed = books)
    /\ [][(pc = "pause" /\ passed' # passed) => books' = books]_vars

\* Display has returned to the menu with two books stored, its copy gone
C17_Witness ==
    /\ pc = "choice"
    /\ typed = [at |-> "pause", line |-> <<>>]
    /\ choice = 0
    /\ passed = <<>>
    /\ Len(books) = 2
    /\ books[1].title = dune

\* C18: every data row written by Search and Display, for every stored
\* book, has fields of nameWidth, authorWidth and yearWidth characters
\* (20/20/10) and is as wide as the border lines and the header line.
C18_RowsFitTable ==
    \A i \in DOMAIN out :
       out[i].kind = "row" =>
          /\ Len(SetwLeft(nameWidth, out[i].title)) = nameWidth
          /\ Len(SetwLeft(authorWidth, out[i].author)) = authorWidth
          /\ Len(SetwLeft(yearWidth, out[i].year)) = yearWidth
          /\ Len(RowText(out[i])) = Len(BorderText)
          /\ Len(HeaderText) = Len(BorderText)

====
